---- MODULE Spec2Model ----
(***************************************************************************)
(* Voice-to-task pipeline of business-planner: the LangGraph workflow of   *)
(* src/ai/graphs/voice_task_creation.py, the task parser, the RAG          *)
(* retriever and the task repository, as a state machine.                  *)
(*                                                                         *)
(* Python None is written None in string-typed slots, NoInt in int-typed   *)
(* slots and NoMsg for a message that was never produced.  User-facing     *)
(* Russian texts are rendered in ASCII; each keeps its own distinct text.  *)
(***************************************************************************)
EXTENDS Integers, Sequences, FiniteSets, TLC

VARIABLES
    mode,          \* who drives: "graph" (process_voice_message), "node" (one node called directly), "retriever"
    pc,            \* the nodes scheduled to run next; empty when the run has ended
    st,            \* the VoiceTaskState threaded through the nodes
    tasks,         \* the tasks table, a sequence of rows; a row's id is its index
    calls,         \* how often each provider / store entry point was invoked
    trace,         \* the nodes executed so far, in order
    faults,        \* the provider / store calls that raised during this run
    parsed_data,   \* outcome of the last openai_client.parse_task call
    parse_result,  \* outcome of the last parse_task_from_transcript call
    req,           \* arguments of a direct RAGRetriever.find_similar_tasks call
    ret,           \* outcome of the last RAGRetriever.find_similar_tasks call
    handed,        \* what the repository handed back to the retriever in that call
    written,       \* ids of the task rows committed during this run
    open_sessions  \* database sessions acquired and not yet closed

vars == <<mode, pc, st, tasks, calls, trace, faults, parsed_data, parse_result,
          req, ret, handed, written, open_sessions>>

-----------------------------------------------------------------------------
(* Values *)

None == "None"
NoInt == -1
NoMsg == <<>>
NoDate == [day |-> None, hour |-> 0, minute |-> 0, second |-> 0]

\* Bounds of the model
MaxRows == 2
MaxEmbedding == 1
MaxTasks == 1

\* a retriever and a repository that accept any business_id
BusinessIds_unvalidated == 0..5

ValidBusinessIds == {1, 2, 3, 4}
rag_top_k == 5
DefaultPriority == 2
DefaultEstimate == 60

END == "__end__"
Nodes == {"transcribe", "parse", "estimate_time", "create_task", "format_response"}

CallNames == {"transcribe_voice", "parse_task", "find_similar_tasks",
              "generate_embedding", "find_similar", "estimate_time",
              "get_session", "create"}

Bump(c, names) == [n \in CallNames |-> IF n \in names THEN c[n] + 1 ELSE c[n]]

\* Every exception type raised in the modelled code derives from Exception.
ExceptionTypes == {"APIError", "JSONDecodeError", "ValidationError", "ValueError",
                   "AttributeError", "AssertionError", "DBError", "TypeError"}

Returned(v) == [kind |-> "return", value |-> v]
Raised(t, m) == [kind |-> "raise", exc |-> t, msg |-> m]
NoCall == [kind |-> "none"]

-----------------------------------------------------------------------------
(* Provider outcomes *)

Transcripts == {"Fix the mill tomorrow", ""}

\* openai_client.transcribe_voice: (text, 0.95) or the provider's exception re-raised
TranscribeOutcomes ==
    {Returned([text |-> t, confidence |-> "0.95"]) : t \in Transcripts}
        \cup {Raised("APIError", "whisper unavailable")}

JsonKeys == {"title", "business_id", "deadline", "assigned_to", "priority"}
JsonTitles == {"", " ", "Fix the mill"}
JsonBusinessIds == {0, 1, 4, 5}
JsonDeadlines == {None, "2025-10-21", "2025-10-21T14:30:00", "tomorrow"}
JsonAssignees == {None, "Dima"}
JsonPriorities == {0, 1, 5}
JsonKeySets == {JsonKeys, JsonKeys \ {"business_id"}, JsonKeys \ {"priority"},
                JsonKeys \ {"title"}}

\* The JSON objects the extraction provider may answer with.
ProviderJson ==
    {[k \in K |-> f[k]] :
        f \in [title : JsonTitles, business_id : JsonBusinessIds,
               deadline : JsonDeadlines, assigned_to : JsonAssignees,
               priority : JsonPriorities],
        K \in JsonKeySets}

\* openai_client.parse_task: the decoded JSON, or the exception re-raised
ParseTaskOutcomes ==
    {Returned(j) : j \in ProviderJson}
        \cup {Raised("APIError", "API connection failed"),
              Raised("JSONDecodeError", "Expecting value")}

-----------------------------------------------------------------------------
(* Task parser *)

\* ParsedTask as its callers expect it, with deadline and assigned_to
ParsedTaskFields_with_deadline ==
    {"title", "business_id", "deadline_text", "project_name", "assigned_to_name",
     "priority", "description", "deadline", "assigned_to"}

\* The attributes of ParsedTask
ParsedTaskFields == {"title", "business_id", "deadline_text", "project_name",
                     "assigned_to_name", "priority", "description"}

\* business_id declared with a default
ParsedTaskRequired_title_only == {"title"}

\* The attributes of ParsedTask that have no default
ParsedTaskRequired == {"title", "business_id"}

ParsedTaskDefault(f) == IF f = "priority" THEN DefaultPriority ELSE None

\* ParsedTask(**parsed_data): required keys must be present, unknown keys are
\* ignored, absent optional keys take their default.  No range is checked.
ParsedTask(data) ==
    IF ~(ParsedTaskRequired \subseteq DOMAIN data)
    THEN Raised("ValidationError", "Field required")
    ELSE Returned([f \in ParsedTaskFields |->
                     IF f \in DOMAIN data THEN data[f] ELSE ParsedTaskDefault(f)])

\* parse_task_from_transcript: any exception is re-raised as ValueError
parse_task_from_transcript(out) ==
    IF out.kind = "raise"
    THEN Raised("ValueError", "Failed to parse task: " \o out.msg)
    ELSE LET p == ParsedTask(out.value) IN
         IF p.kind = "raise"
         THEN Raised("ValueError", "Failed to parse task: " \o p.msg)
         ELSE p

-----------------------------------------------------------------------------
(* Pipeline state *)

\* initial_state of process_voice_message; parsed_deadline is a key the nodes
\* read with state.get and that is absent at the start.
initial_state ==
    [user_id |-> 1,
     transcript |-> None,
     transcript_confidence |-> None,
     parsed_title |-> None,
     parsed_business_id |-> NoInt,
     parsed_deadline_text |-> None,
     parsed_deadline |-> None,
     parsed_assigned_to |-> None,
     parsed_priority |-> NoInt,
     similar_tasks_count |-> 0,
     estimated_duration |-> NoInt,
     created_task_id |-> NoInt,
     telegram_response |-> NoMsg,
     error |-> None,
     error_message |-> None,
     processing_time_ms |-> 0]

\* `if state.get("error")`: None and the empty string are both falsy
HasError(s) == s.error # None /\ s.error # ""

\* an except-branch that logs and forgets to record the error
transcribe_failed_silent(s, msg) == s

\* except-branch of transcribe_voice_node
transcribe_failed(s, msg) ==
    [s EXCEPT !.error = "TranscriptionFailed",
              !.error_message = "Could not recognise the voice: " \o msg]

\* transcribe_voice_node
transcribe_result(s, out) ==
    IF out.kind = "return"
    THEN [s EXCEPT !.transcript = out.value.text,
                   !.transcript_confidence = out.value.confidence]
    ELSE transcribe_failed(s, out.msg)

\* parse_task_node without its error check
parse_never_skips(s) == FALSE

\* first statement of parse_task_node
parse_skips(s) == HasError(s)

\* The attributes parse_task_node reads from the ParsedTask it was handed
ParseNodeReads == <<"title", "business_id", "deadline", "assigned_to", "priority">>

\* The first attribute read that the object does not have (0 if it has all)
FirstMissing(obj) ==
    LET miss == {i \in 1..Len(ParseNodeReads) : ParseNodeReads[i] \notin DOMAIN obj}
    IN IF miss = {} THEN 0 ELSE CHOOSE i \in miss : \A j \in miss : i <= j

parse_failed(s, msg) ==
    [s EXCEPT !.error = "ParsingFailed",
              !.error_message = "Could not understand the task: " \o msg]

\* try/except body of parse_task_node, given what parse_task_from_transcript did
parse_result_state(s, r) ==
    IF r.kind = "raise" THEN parse_failed(s, r.msg)
    ELSE LET m == FirstMissing(r.value) IN
         IF m # 0
         THEN parse_failed(s, "'ParsedTask' object has no attribute '"
                              \o ParseNodeReads[m] \o "'")
         ELSE [s EXCEPT !.parsed_title = r.value.title,
                        !.parsed_business_id = r.value.business_id,
                        !.parsed_deadline = r.value.deadline,
                        !.parsed_assigned_to = r.value.assigned_to,
                        !.parsed_priority = r.value.priority]

-----------------------------------------------------------------------------
(* Task store *)

\* The vectors of the model: points on a line
Embeddings == 0..MaxEmbedding

\* Rows the tasks table may hold before a run: created through TaskCreate
\* (business 1..4, stripped title), some completed and embedded.
SampleRows ==
    {[business_id |-> 1, title |-> "Repair the mill", status |-> "done",
      actual_duration |-> 100, embedding |-> 0],
     [business_id |-> 2, title |-> "Model a crown", status |-> "done",
      actual_duration |-> 90, embedding |-> 1],
     [business_id |-> 1, title |-> "Call the client", status |-> "open",
      actual_duration |-> NoInt, embedding |-> NoInt]}

\* A row of the tasks table (TaskORM)
TaskRow(id, r) ==
    [id |-> id, user_id |-> 1, business_id |-> r.business_id, title |-> r.title,
     status |-> r.status, priority |-> DefaultPriority,
     estimated_duration |-> NoInt, actual_duration |-> r.actual_duration,
     deadline |-> NoDate, embedding |-> r.embedding,
     completed_at |-> IF r.status = "open" THEN NoInt ELSE 1]

StoreSnapshots ==
    UNION {{[i \in 1..n |-> TaskRow(i, f[i])] : f \in [1..n -> SampleRows]} : n \in 0..MaxRows}

\* Task.model_validate(task_orm): the field constraints of Task / TaskBase
TaskValid(row) ==
    /\ row.title # None /\ row.title # "" /\ row.title # " "
    /\ row.business_id >= 1 /\ row.business_id <= 4
    /\ row.priority >= 1 /\ row.priority <= 4
    /\ row.status \in {"open", "done", "archived"}
    /\ (row.estimated_duration = NoInt
          \/ (row.estimated_duration >= 1 /\ row.estimated_duration <= 480))
    /\ (row.actual_duration = NoInt
          \/ (row.actual_duration >= 1 /\ row.actual_duration <= 480))

\* TaskORM.embedding.cosine_distance(embedding), on the model's embeddings
cosine_distance(a, b) == IF a >= b THEN a - b ELSE b - a

MaxDistance == MaxEmbedding

RECURSIVE OrderByDistance(_, _, _)
\* ORDER BY distance: ascending, rows at equal distance in table order
OrderByDistance(rows, e, d) ==
    IF d > MaxDistance THEN <<>>
    ELSE LET At(r) == cosine_distance(r.embedding, e) = d
         IN SelectSeq(rows, At) \o OrderByDistance(rows, e, d + 1)

Limit(rows, n) == IF Len(rows) <= n THEN rows ELSE SubSeq(rows, 1, n)

\* The `assert task.business_id == business_id` loops of the repository and
\* of the retriever
SameBusiness(rows, b) == \A i \in 1..Len(rows) : rows[i].business_id = b

\* TaskRepository.find_similar on table T; q is what session.execute does
TaskRepository_find_similar(T, e, b, limit, q) ==
    IF b \notin ValidBusinessIds THEN Raised("ValueError", "Invalid business_id")
    ELSE IF q = "raise" THEN Raised("DBError", "connection lost")
    ELSE LET Match(r) == /\ r.business_id = b
                         /\ r.embedding # NoInt
                         /\ r.actual_duration # NoInt
                         /\ r.status = "done"
             found == Limit(OrderByDistance(SelectSeq(T, Match), e, 0), limit)
         IN IF \E i \in 1..Len(found) : ~TaskValid(found[i])
            THEN Raised("ValidationError", "Task")
            ELSE IF ~SameBusiness(found, b)
            THEN Raised("AssertionError", "RAG isolation breach!")
            ELSE Returned(found)

-----------------------------------------------------------------------------
(* RAG retriever *)

\* generate_embedding: a vector, or the provider's exception re-raised
EmbeddingOutcomes ==
    {Returned(e) : e \in Embeddings} \cup {Raised("APIError", "embeddings unavailable")}

\* a find_similar_tasks without its except branch
retriever_catches_nothing(exc) == FALSE

\* `except Exception` of find_similar_tasks
retriever_catches(exc) == exc \in ExceptionTypes

\* find_similar_tasks without its validation loop
retriever_isolation_unchecked(rows, b) == TRUE

\* The paranoid validation loop of find_similar_tasks
retriever_isolation_ok(rows, b) == SameBusiness(rows, b)

\* RAGRetriever.find_similar_tasks; emb is what generate_embedding does and
\* found what self.repository.find_similar does with the embedding it gets.
\* The result also names the calls made, those that raised and what the
\* repository handed back.
find_similar_tasks(b, emb, found) ==
    IF b \notin ValidBusinessIds
    THEN [out |-> Raised("ValueError", "Invalid business_id"),
          called |-> {}, failed |-> {}, handed |-> NoCall]
    ELSE IF emb.kind = "raise"
    THEN [out |-> IF retriever_catches(emb.exc) THEN Returned(<<>>) ELSE emb,
          called |-> {"generate_embedding"}, failed |-> {"generate_embedding"},
          handed |-> NoCall]
    ELSE IF found.kind = "raise"
    THEN [out |-> IF retriever_catches(found.exc) THEN Returned(<<>>) ELSE found,
          called |-> {"generate_embedding", "find_similar"},
          failed |-> {"find_similar"}, handed |-> found]
    ELSE IF ~retriever_isolation_ok(found.value, b)
    THEN [out |-> IF retriever_catches("AssertionError") THEN Returned(<<>>)
                  ELSE Raised("AssertionError", "RAG isolation breach!"),
          called |-> {"generate_embedding", "find_similar"}, failed |-> {},
          handed |-> found]
    ELSE [out |-> found,
          called |-> {"generate_embedding", "find_similar"}, failed |-> {},
          handed |-> found]

-----------------------------------------------------------------------------
(* Estimation stage *)

\* The provider's answer to the estimation prompt (message content)
EstimateTexts == {"1", "100", "480", "481", "0", "about 90"}

EstimateOutcomes ==
    {Returned(t) : t \in EstimateTexts} \cup {Raised("APIError", "rate limited")}

\* int(duration_text) on the answers above
int(text) ==
    CASE text = "0" -> Returned(0)
      [] text = "1" -> Returned(1)
      [] text = "100" -> Returned(100)
      [] text = "480" -> Returned(480)
      [] text = "481" -> Returned(481)
      [] OTHER -> Raised("ValueError", "invalid literal for int()")

\* estimate_time without its sanity check
estimate_time_unchecked(out) ==
    IF out.kind = "raise" THEN DefaultEstimate
    ELSE LET d == int(out.value) IN
         IF d.kind = "raise" THEN DefaultEstimate ELSE d.value

\* OpenAIClient.estimate_time: the sanity-checked answer, 60 on anything else
estimate_time(out) ==
    IF out.kind = "raise" THEN DefaultEstimate
    ELSE LET d == int(out.value) IN
         IF d.kind = "raise" THEN DefaultEstimate
         ELSE IF d.value < 1 \/ d.value > 480 THEN DefaultEstimate
         ELSE d.value

\* a stage that closes its session only after a body that did not raise
sessions_left_open_without_finally(body_raised, close_fails) ==
    IF body_raised \/ close_fails THEN 1 ELSE 0

\* `finally: await session.close()` of a stage whose body raised or not: the
\* sessions the stage leaves open (one when close itself raises)
sessions_left_open(body_raised, close_fails) ==
    IF close_fails THEN 1 ELSE 0

\* What the environment does during one estimate_time_rag_node call
EstimateEnvs ==
    [session : {"ok", "get_raises", "close_raises"},
     emb : EmbeddingOutcomes,
     query : {"ok", "raise"},
     est : EstimateOutcomes]

\* estimate_time_rag_node without its error check
estimate_never_skips(s) == FALSE

\* first statement of estimate_time_rag_node
estimate_skips(s) == HasError(s)

\* outer except-branch of estimate_time_rag_node
estimate_fallback(s) ==
    [s EXCEPT !.similar_tasks_count = 0, !.estimated_duration = DefaultEstimate]

\* estimate_time_rag_node past its first statement: the new state, the calls
\* made, the calls that raised, the retriever's outcome and the sessions left
\* open.
estimate_run(s, T, env) ==
    IF env.session = "get_raises"
    THEN [st |-> estimate_fallback(s), called |-> {"get_session"},
          failed |-> {"get_session"}, ret |-> NoCall, handed |-> NoCall,
          opened |-> 0]
    ELSE
      LET e == IF env.emb.kind = "return" THEN env.emb.value ELSE 0
          found == TaskRepository_find_similar(T, e, s.parsed_business_id,
                                               rag_top_k, env.query)
          r == find_similar_tasks(s.parsed_business_id, env.emb, found)
          similar == r.out.value
          asks == r.out.kind = "return" /\ Len(similar) > 0
          estimated == IF asks THEN estimate_time(env.est) ELSE DefaultEstimate
          close_fails == env.session = "close_raises"
          called == {"get_session", "find_similar_tasks"} \cup r.called
                        \cup (IF asks THEN {"estimate_time"} ELSE {})
          failed == r.failed
                        \cup (IF asks /\ env.est.kind = "raise"
                              THEN {"estimate_time"} ELSE {})
                        \cup (IF close_fails THEN {"close"} ELSE {})
      IN [st |-> IF r.out.kind = "raise" \/ close_fails
                 THEN estimate_fallback(s)
                 ELSE [s EXCEPT !.similar_tasks_count = Len(similar),
                                !.estimated_duration = estimated],
          called |-> called, failed |-> failed, ret |-> r.out,
          handed |-> r.handed,
          opened |-> sessions_left_open(r.out.kind = "raise", close_fails)]

-----------------------------------------------------------------------------
(* Persistence stage *)

\* datetime.fromisoformat on the deadline strings of the model
fromisoformat(text) ==
    CASE text = "2025-10-21" ->
            Returned([day |-> "21.10.2025", hour |-> 0, minute |-> 0, second |-> 0])
      [] text = "2025-10-21T14:30:00" ->
            Returned([day |-> "21.10.2025", hour |-> 14, minute |-> 30, second |-> 0])
      [] OTHER -> Raised("ValueError", "Invalid isoformat string")

\* `if state.get("parsed_deadline")`
HasDeadline(s) == s.parsed_deadline # None /\ s.parsed_deadline # ""

\* title.strip() on the titles of the model
strip(title) == IF title = " " THEN "" ELSE title

\* The fields of TaskCreate; a keyword that is not a field is ignored
TaskCreateFields == {"title", "description", "business_id", "project_id",
                     "assigned_to", "priority", "deadline", "deadline_text",
                     "created_via", "task_metadata"}

\* validate_deadline_fields: runs once per field, seeing only the fields
\* validated before it, so it never sees deadline and deadline_text together
validate_deadline_fields(deadline, deadline_text) ==
    LET seen_at_deadline == {"title", "description", "business_id", "project_id",
                             "assigned_to", "priority"}
        seen_at_text == seen_at_deadline \cup {"deadline"}
        Rejects(seen) == /\ "deadline" \in seen /\ "deadline_text" \in seen
                         /\ deadline # NoDate /\ deadline_text # None
    IN ~Rejects(seen_at_deadline) /\ ~Rejects(seen_at_text)

\* TaskCreate(...) as create_task_db_node builds it: the validated model, or
\* a ValidationError
TaskCreate(kw) ==
    IF /\ kw.title # None
       /\ strip(kw.title) # ""
       /\ kw.business_id # NoInt /\ kw.business_id >= 1 /\ kw.business_id <= 4
       /\ kw.priority # NoInt /\ kw.priority >= 1 /\ kw.priority <= 4
       /\ validate_deadline_fields(kw.deadline, kw.deadline_text)
    THEN Returned([f \in TaskCreateFields \cap DOMAIN kw |->
                     IF f = "title" THEN strip(kw.title) ELSE kw[f]])
    ELSE Raised("ValidationError", "TaskCreate")

\* The row TaskRepository.create inserts: the dumped fields without
\* created_via and deadline_text, column defaults for the rest
created_row(id, user_id, data) ==
    LET col(f, default) == IF f \in DOMAIN data THEN data[f] ELSE default
    IN [id |-> id, user_id |-> user_id,
        business_id |-> data.business_id,
        title |-> data.title,
        status |-> "open",
        priority |-> col("priority", DefaultPriority),
        estimated_duration |-> col("estimated_duration", NoInt),
        actual_duration |-> NoInt,
        deadline |-> col("deadline", NoDate),
        embedding |-> NoInt,
        completed_at |-> NoInt]

\* Where one create_task_db_node call may fail in the store
CreateFaults == {"none", "get_session", "commit", "refresh", "close"}

\* first statement of create_task_db_node
create_skips(s) == HasError(s)

\* except-branch of create_task_db_node
create_failed(s, msg) ==
    [s EXCEPT !.error = "TaskCreationFailed",
              !.error_message = "Could not create the task: " \o msg]

\* The keyword arguments create_task_db_node hands to TaskCreate: a parsable
\* parsed_deadline becomes the end of that day and its dd.mm.yyyy text
TaskCreateKeywords(s) ==
    LET parsed == IF HasDeadline(s) THEN fromisoformat(s.parsed_deadline)
                  ELSE Raised("none", "")
        deadline == IF parsed.kind = "return"
                    THEN [parsed.value EXCEPT !.hour = 23, !.minute = 59, !.second = 59]
                    ELSE NoDate
        deadline_text == IF parsed.kind = "return" THEN parsed.value.day ELSE None
    IN [title |-> s.parsed_title,
        business_id |-> s.parsed_business_id,
        priority |-> s.parsed_priority,
        estimated_duration |-> s.estimated_duration,
        deadline |-> deadline,
        deadline_text |-> deadline_text,
        created_via |-> "voice"]

\* create_task_db_node past its first statement: the new state, the table,
\* the calls made and the sessions left open.
create_run(s, T, fault) ==
    IF fault = "get_session"
    THEN [st |-> create_failed(s, "connection refused"), tasks |-> T,
          called |-> {"get_session"}, failed |-> {"get_session"}, opened |-> 0]
    ELSE
      LET data == TaskCreate(TaskCreateKeywords(s))
          id == Len(T) + 1
          row == created_row(id, s.user_id, data.value)
          committed == data.kind = "return" /\ fault # "commit"
          returned == committed /\ fault # "refresh" /\ TaskValid(row)
          close_fails == fault = "close"
          msg == IF data.kind = "raise" THEN "validation error"
                 ELSE IF fault = "commit" THEN "commit failed"
                 ELSE IF fault = "refresh" THEN "refresh failed"
                 ELSE IF ~returned THEN "validation error"
                 ELSE "close failed"
      IN [st |-> IF returned /\ ~close_fails
                 THEN [s EXCEPT !.created_task_id = id]
                 ELSE create_failed(s, msg),
          tasks |-> IF committed THEN Append(T, row) ELSE T,
          called |-> {"get_session"}
                       \cup (IF data.kind = "return" THEN {"create"} ELSE {}),
          failed |-> (IF data.kind = "return" /\ fault \in {"commit", "refresh"}
                      THEN {fault} ELSE {})
                       \cup (IF close_fails THEN {"close"} ELSE {}),
          opened |-> sessions_left_open(~returned, close_fails)]

-----------------------------------------------------------------------------
(* Response formatting *)

\* error_messages of format_response_node
error_messages ==
    [TranscriptionFailed |-> "[ERROR] Could not recognise the voice. Try again.",
     ParsingFailed |-> "[ERROR] Could not understand the task. Please clarify.",
     TaskCreationFailed |-> "[ERROR] Error while creating the task. Try later."]

business_names == <<"Inventum", "Inventum Lab", "R&D", "Trade">>
priority_names == <<"HIGH", "MEDIUM", "LOW", "DEFERRED">>

\* str() of an optional int
str(n) == IF n = NoInt THEN None ELSE ToString(n)

\* strftime of %H and %M
two_digits(n) == IF n < 10 THEN "0" \o ToString(n) ELSE ToString(n)

\* The deadline part of the success message
deadline_lines(s) ==
    IF ~HasDeadline(s) THEN <<>>
    ELSE LET dt == fromisoformat(s.parsed_deadline) IN
         IF dt.kind = "raise" THEN <<>>
         ELSE IF dt.value.hour # 0 \/ dt.value.minute # 0
         THEN <<"Deadline:   " \o dt.value.day \o " at "
                  \o two_digits(dt.value.hour) \o ":" \o two_digits(dt.value.minute)>>
         ELSE <<"Deadline:   " \o dt.value.day>>

assignee_lines(s) ==
    IF s.parsed_assigned_to # None /\ s.parsed_assigned_to # ""
    THEN <<"Assignee: " \o s.parsed_assigned_to>>
    ELSE <<>>

\* The estimate part of the success message
time_lines(s) ==
    IF s.estimated_duration = NoInt \/ s.estimated_duration = 0 THEN <<>>
    ELSE LET hours == s.estimated_duration \div 60
             mins == s.estimated_duration % 60
             time_str == IF hours > 0
                         THEN IF mins > 0
                              THEN ToString(hours) \o " h " \o ToString(mins) \o " min"
                              ELSE ToString(hours) \o " h"
                         ELSE ToString(mins) \o " min"
             confidence == IF s.similar_tasks_count >= 3 THEN "(high accuracy)"
                           ELSE "(estimate)"
         IN <<"Time:     " \o time_str \o " " \o confidence>>

\* a format_response_node that measures the time and writes no message
format_response_silent(s, ms) == [s EXCEPT !.processing_time_ms = ms]

\* format_response_node; ms is the elapsed time it measures
format_response(s, ms) ==
    IF HasError(s)
    THEN [s EXCEPT !.telegram_response =
            <<IF s.error \in DOMAIN error_messages THEN error_messages[s.error]
              ELSE "[ERROR] An error occurred: " \o s.error_message>>]
    ELSE LET b == s.parsed_business_id
             p == s.parsed_priority
             business_name == IF b \in DOMAIN business_names THEN business_names[b]
                              ELSE "Business " \o str(b)
             priority_name == IF p \in DOMAIN priority_names THEN priority_names[p]
                              ELSE "MEDIUM"
         IN [s EXCEPT !.telegram_response =
                        <<"TASK CREATED", "", s.parsed_title, "",
                          "Business:    " \o business_name,
                          "Priority: " \o priority_name>>
                        \o deadline_lines(s) \o assignee_lines(s) \o time_lines(s),
                      !.processing_time_ms = ms]

ElapsedMs == {850, 2400}

-----------------------------------------------------------------------------
(* The graph *)

\* graph.set_entry_point
entry_point == "transcribe"

\* a graph wired from parse straight to create_task
edges_skip_estimate ==
    {<<"transcribe", "parse">>, <<"parse", "create_task">>,
     <<"estimate_time", "create_task">>, <<"create_task", "format_response">>,
     <<"format_response", END>>}

\* graph.add_edge
edges == {<<"transcribe", "parse">>, <<"parse", "estimate_time">>,
          <<"estimate_time", "create_task">>, <<"create_task", "format_response">>,
          <<"format_response", END>>}

\* The nodes scheduled after node n has returned
successors(n) == {m \in Nodes \cup {END} : <<n, m>> \in edges}

-----------------------------------------------------------------------------
(* Runs *)

NoCalls == [n \in CallNames |-> 0]

\* Node n has returned: in a graph run its successors are scheduled
Advance(n) ==
    /\ pc' = (pc \ {n}) \cup (IF mode = "graph" THEN successors(n) \ {END} ELSE {})
    /\ trace' = Append(trace, n)

Done == pc = {}

\* transcribe_voice_node
transcribe_voice_node ==
    /\ "transcribe" \in pc
    /\ \E out \in TranscribeOutcomes :
          /\ st' = transcribe_result(st, out)
          /\ faults' = faults \cup (IF out.kind = "raise" THEN {"transcribe_voice"} ELSE {})
    /\ calls' = Bump(calls, {"transcribe_voice"})
    /\ Advance("transcribe")
    /\ UNCHANGED <<mode, tasks, parsed_data, parse_result, req, ret, handed,
                   written, open_sessions>>

\* parse_task_node
parse_task_node ==
    /\ "parse" \in pc
    /\ IF parse_skips(st)
       THEN UNCHANGED <<st, calls, faults, parsed_data, parse_result>>
       ELSE \E out \in ParseTaskOutcomes :
               LET r == parse_task_from_transcript(out) IN
               /\ parsed_data' = out
               /\ parse_result' = r
               /\ st' = parse_result_state(st, r)
               /\ calls' = Bump(calls, {"parse_task"})
               /\ faults' = faults \cup (IF out.kind = "raise" THEN {"parse_task"} ELSE {})
    /\ Advance("parse")
    /\ UNCHANGED <<mode, tasks, req, ret, handed, written, open_sessions>>

\* estimate_time_rag_node
estimate_time_rag_node ==
    /\ "estimate_time" \in pc
    /\ IF estimate_skips(st)
       THEN UNCHANGED <<st, calls, faults, ret, handed, open_sessions>>
       ELSE \E env \in EstimateEnvs :
               LET r == estimate_run(st, tasks, env) IN
               /\ st' = r.st
               /\ calls' = Bump(calls, r.called)
               /\ faults' = faults \cup r.failed
               /\ ret' = r.ret
               /\ handed' = r.handed
               /\ open_sessions' = open_sessions + r.opened
    /\ Advance("estimate_time")
    /\ UNCHANGED <<mode, tasks, parsed_data, parse_result, req, written>>

\* create_task_db_node
create_task_db_node ==
    /\ "create_task" \in pc
    /\ IF create_skips(st)
       THEN UNCHANGED <<st, tasks, calls, faults, written, open_sessions>>
       ELSE \E fault \in CreateFaults :
               LET r == create_run(st, tasks, fault) IN
               /\ st' = r.st
               /\ tasks' = r.tasks
               /\ written' = written \cup {i \in 1..Len(r.tasks) : i > Len(tasks)}
               /\ calls' = Bump(calls, r.called)
               /\ faults' = faults \cup r.failed
               /\ open_sessions' = open_sessions + r.opened
    /\ Advance("create_task")
    /\ UNCHANGED <<mode, parsed_data, parse_result, req, ret, handed>>

\* format_response_node
format_response_node ==
    /\ "format_response" \in pc
    /\ \E ms \in ElapsedMs : st' = format_response(st, ms)
    /\ Advance("format_response")
    /\ UNCHANGED <<mode, tasks, calls, faults, parsed_data, parse_result, req,
                   ret, handed, written, open_sessions>>

\* A direct call of RAGRetriever.find_similar_tasks with the arguments req,
\* on the repository the retriever was constructed with
call_find_similar_tasks ==
    /\ "find_similar_tasks" \in pc
    /\ \E emb \in EmbeddingOutcomes, q \in {"ok", "raise"} :
          LET e == IF emb.kind = "return" THEN emb.value ELSE 0
              top_k == IF req.top_k = NoInt THEN rag_top_k ELSE req.top_k
              found == IF req.repository = "TaskRepository"
                       THEN TaskRepository_find_similar(tasks, e, req.business_id, top_k, q)
                       ELSE req.answer
              r == find_similar_tasks(req.business_id, emb, found)
          IN /\ ret' = r.out
             /\ handed' = r.handed
             /\ calls' = Bump(calls, {"find_similar_tasks"} \cup r.called)
             /\ faults' = faults \cup r.failed
    /\ Advance("find_similar_tasks")
    /\ UNCHANGED <<mode, st, tasks, parsed_data, parse_result, req, written,
                   open_sessions>>

NoRequest == [business_id |-> NoInt, top_k |-> NoInt, repository |-> None,
              answer |-> NoCall]

\* What does not depend on who drives
InitCommon ==
    /\ tasks \in StoreSnapshots
    /\ calls = NoCalls
    /\ trace = <<>>
    /\ faults = {}
    /\ parsed_data = NoCall
    /\ parse_result = NoCall
    /\ ret = NoCall
    /\ handed = NoCall
    /\ written = {}
    /\ open_sessions = 0

\* process_voice_message: the graph is invoked on initial_state
Init ==
    /\ mode = "graph"
    /\ pc = {entry_point}
    /\ st = initial_state
    /\ req = NoRequest
    /\ InitCommon

Next ==
    \/ transcribe_voice_node
    \/ parse_task_node
    \/ estimate_time_rag_node
    \/ create_task_db_node
    \/ format_response_node

Spec == Init /\ [][Next]_vars

\* The event loop resumes the graph whenever a node is scheduled, and every
\* awaited provider or store call returns or raises
FairSpec == Spec /\ WF_vars(Next)

-----------------------------------------------------------------------------
(* Direct calls: one node on a caller-built state, or the retriever alone *)

\* A state as a caller (a unit test) builds it for one node
NodeState(e, t, b, p, d, a, m) ==
    [initial_state EXCEPT
        !.transcript = "Fix the mill tomorrow",
        !.transcript_confidence = "0.95",
        !.error = e, !.error_message = IF e = None THEN None ELSE "API error",
        !.parsed_title = t, !.parsed_business_id = b, !.parsed_priority = p,
        !.parsed_deadline = d, !.parsed_assigned_to = a,
        !.estimated_duration = m,
        !.similar_tasks_count = IF m = 135 THEN 3 ELSE 0]

NodeErrors == {None, "TranscriptionFailed", "UnknownError"}
NodeTitles == {None, " ", "Fix the mill"}
NodeBusinessIds == {NoInt, 1, 2, 5}
NodePriorities == {NoInt, 1, 5}
NodeDeadlines == {None, "2025-10-21", "2025-10-21T14:30:00", "tomorrow"}
NodeEstimates == {NoInt, 60, 135}

\* The states handed to node n; the fields n does not read are left as a
\* run leaves them.
NodeInputs(n) ==
    CASE n = "transcribe" -> {initial_state}
      [] n = "parse" ->
            {NodeState(e, None, NoInt, NoInt, None, None, NoInt) : e \in NodeErrors}
      [] n = "estimate_time" ->
            {NodeState(e, t, b, 1, None, None, NoInt) :
                e \in NodeErrors, t \in NodeTitles, b \in NodeBusinessIds}
      [] n = "create_task" ->
            {NodeState(e, t, b, p, d, None, m) :
                e \in NodeErrors, t \in NodeTitles, b \in NodeBusinessIds,
                p \in NodePriorities, d \in NodeDeadlines, m \in NodeEstimates}
      [] OTHER ->
            {NodeState(e, t, b, p, d, a, m) :
                e \in NodeErrors, t \in NodeTitles, b \in NodeBusinessIds,
                p \in NodePriorities, d \in NodeDeadlines, a \in {None, "Dima"},
                m \in NodeEstimates}

\* What a repository other than TaskRepository may answer to find_similar
RepositoryAnswers ==
    {Returned(rows) : rows \in StoreSnapshots} \cup {Raised("DBError", "connection lost")}

\* The arguments of a direct find_similar_tasks call and the repository the
\* retriever was constructed with
Requests ==
    {[business_id |-> b, top_k |-> k, repository |-> "TaskRepository",
      answer |-> NoCall] : b \in {0, 1, 2, 5}, k \in {NoInt, 1}}
    \cup
    {[business_id |-> b, top_k |-> NoInt, repository |-> "injected",
      answer |-> a] : b \in {0, 1, 2, 5}, a \in RepositoryAnswers}

InitCall ==
    /\ InitCommon
    /\ \/ /\ mode = "node"
          /\ \E n \in Nodes : pc = {n} /\ st \in NodeInputs(n)
          /\ req = NoRequest
       \/ /\ mode = "retriever"
          /\ pc = {"find_similar_tasks"}
          /\ st = initial_state
          /\ req \in Requests

NextCall ==
    \/ Next
    \/ call_find_similar_tasks

SpecCall == InitCall /\ [][NextCall]_vars

-----------------------------------------------------------------------------
(* Task repository: the operations on the tasks table *)

\* The ids a caller may name: those of the rows and one that was never given
TaskIds == 1..(MaxTasks + 1)

\* get_by_id found no row
ReturnedNone == [kind |-> "return_none"]

\* TaskRepository.get_by_id
get_by_id(T, id) ==
    IF id \notin DOMAIN T THEN ReturnedNone
    ELSE IF TaskValid(T[id]) THEN Returned(T[id])
    ELSE Raised("ValidationError", "Task")

\* The CHECK and NOT NULL constraints of the tasks table, seen at commit
RowConstraints(row) ==
    /\ row.title # None
    /\ row.status \in {"open", "done", "archived"}
    /\ row.priority >= 1 /\ row.priority <= 4
    /\ (row.estimated_duration = NoInt
          \/ (row.estimated_duration >= 1 /\ row.estimated_duration <= 480))
    /\ (row.actual_duration = NoInt
          \/ (row.actual_duration >= 1 /\ row.actual_duration <= 480))

\* TaskStatus.can_transition_to
can_transition_to(old, new) ==
    \/ old = "open" /\ new = "done"
    \/ old = "done" /\ new \in {"archived", "open"}

\* What func.now() may put into completed_at
Timestamps == {1, 2}

\* actual_duration as callers pass it to complete
Durations == {60, 100, 481}

\* The keyword arguments callers build a TaskUpdate from (a PATCH body)
UpdateKeywords ==
    {[f \in S |-> full[f]] :
        full \in [status : {"open", "done", "archived"}, business_id : {3}],
        S \in SUBSET {"status", "business_id"}}

\* a TaskUpdate that also accepts business_id
TaskUpdateFields_with_business_id ==
    {"title", "description", "status", "priority", "deadline", "assigned_to",
     "business_id"}

\* The fields of TaskUpdate; a keyword that is not a field is ignored
TaskUpdateFields ==
    {"title", "description", "status", "priority", "deadline", "assigned_to"}

\* TaskUpdate(**kw).model_dump(exclude_unset=True)
TaskUpdate(kw) == [f \in TaskUpdateFields \cap DOMAIN kw |-> kw[f]]

\* The result of a repository operation: the table and what the call did
Outcome(T, out) == [tasks |-> T, out |-> out]

NotFound(id) == Raised("ValueError", "Task " \o ToString(id) \o " not found")

\* The ids of the businesses table as scripts/init_db.py seeds it
SeededBusinesses == {1, 2, 3, 4}

\* ForeignKey("businesses.id") of tasks.business_id, seen at commit
ForeignKeys(row) == row.business_id \in SeededBusinesses

\* TaskRepository.create with an available session: the INSERT is refused
\* at commit when a constraint fails, the stored row is validated after it
create(T, data, user_id) ==
    LET row == created_row(Len(T) + 1, user_id, data)
    IN IF ~(RowConstraints(row) /\ ForeignKeys(row))
       THEN Outcome(T, Raised("IntegrityError", "tasks"))
       ELSE Outcome(Append(T, row),
                    IF TaskValid(row) THEN Returned(row)
                    ELSE Raised("ValidationError", "Task"))

\* TaskRepository.update
update(T, id, data) ==
    IF id \notin DOMAIN T THEN Outcome(T, NotFound(id))
    ELSE LET row == [f \in DOMAIN T[id] |->
                        IF f \in DOMAIN data THEN data[f] ELSE T[id][f]]
         IN IF ~RowConstraints(row)
            THEN Outcome(T, Raised("IntegrityError", "tasks"))
            ELSE Outcome([T EXCEPT ![id] = row],
                         IF TaskValid(row) THEN Returned(row)
                         ELSE Raised("ValidationError", "Task"))

\* a complete that does not look at the status
complete_unguarded(T, id, actual_duration, now) ==
    IF id \notin DOMAIN T THEN Outcome(T, NotFound(id))
    ELSE LET row == [T[id] EXCEPT !.status = "done",
                                  !.actual_duration = actual_duration,
                                  !.completed_at = now]
         IN IF ~RowConstraints(row)
            THEN Outcome(T, Raised("IntegrityError", "valid_actual_duration"))
            ELSE Outcome([T EXCEPT ![id] = row], Returned(row))

\* TaskRepository.complete; now is the value of func.now()
complete(T, id, actual_duration, now) ==
    LET task == get_by_id(T, id) IN
    IF task = ReturnedNone THEN Outcome(T, NotFound(id))
    ELSE IF task.kind = "raise" THEN Outcome(T, task)
    ELSE IF task.value.status = "done"
    THEN Outcome(T, Raised("ValueError", "Task already completed"))
    ELSE LET row == [T[id] EXCEPT !.status = "done",
                                  !.actual_duration = actual_duration,
                                  !.completed_at = now]
         IN IF ~RowConstraints(row)
            THEN Outcome(T, Raised("IntegrityError", "valid_actual_duration"))
            ELSE Outcome([T EXCEPT ![id] = row], Returned(row))

\* a delete that archives nothing
delete_keeping_status(T, id) ==
    IF id \notin DOMAIN T THEN Outcome(T, NotFound(id))
    ELSE Outcome(T, Returned(None))

\* TaskRepository.delete
delete(T, id) ==
    IF id \notin DOMAIN T THEN Outcome(T, NotFound(id))
    ELSE Outcome([T EXCEPT ![id] = [@ EXCEPT !.status = "archived"]],
                 Returned(None))

\* TaskRepository.update_embedding
update_embedding(T, id, embedding) ==
    IF id \notin DOMAIN T THEN Outcome(T, Returned(None))
    ELSE Outcome([T EXCEPT ![id] = [@ EXCEPT !.embedding = embedding]],
                 Returned(None))

\* The TaskCreate a caller hands to create
NewTasks ==
    {TaskCreate([title |-> "Call the client", business_id |-> b,
                 priority |-> DefaultPriority, deadline |-> NoDate,
                 deadline_text |-> None]).value : b \in {1, 2}}

\* A repository call req has run on the table: its outcome is kept
Called(request, r) ==
    /\ req' = request
    /\ tasks' = r.tasks
    /\ ret' = r.out
    /\ written' = written \cup (DOMAIN r.tasks \ DOMAIN tasks)
    /\ UNCHANGED <<mode, pc, st, calls, trace, faults, parsed_data,
                   parse_result, handed, open_sessions>>

\* repo.create(task_data, user_id)
repo_create ==
    /\ mode = "repository"
    /\ Len(tasks) < MaxTasks
    /\ \E data \in NewTasks :
          Called([op |-> "create", id |-> Len(tasks) + 1],
                 create(tasks, data, st.user_id))

\* repo.update(task_id, task_data)
repo_update ==
    /\ mode = "repository"
    /\ \E id \in TaskIds, kw \in UpdateKeywords :
           Called([op |-> "update", id |-> id, keywords |-> DOMAIN kw,
                   data |-> TaskUpdate(kw)],
                  update(tasks, id, TaskUpdate(kw)))

\* repo.complete(task_id, actual_duration)
repo_complete ==
    /\ mode = "repository"
    /\ \E id \in TaskIds, d \in Durations, now \in Timestamps :
           Called([op |-> "complete", id |-> id, actual_duration |-> d],
                  complete(tasks, id, d, now))

\* repo.delete(task_id)
repo_delete ==
    /\ mode = "repository"
    /\ \E id \in TaskIds :
           Called([op |-> "delete", id |-> id], delete(tasks, id))

\* repo.update_embedding(task_id, embedding)
repo_update_embedding ==
    /\ mode = "repository"
    /\ \E id \in TaskIds, e \in {0} :
           Called([op |-> "update_embedding", id |-> id],
                  update_embedding(tasks, id, e))

\* No repository call has been made yet
NoOperation == [op |-> None, id |-> NoInt]

\* A caller holding a TaskRepository on an empty tasks table
InitRepo ==
    /\ mode = "repository"
    /\ pc = {}
    /\ st = initial_state
    /\ req = NoOperation
    /\ tasks = <<>>
    /\ calls = NoCalls
    /\ trace = <<>>
    /\ faults = {}
    /\ parsed_data = NoCall
    /\ parse_result = NoCall
    /\ ret = NoCall
    /\ handed = NoCall
    /\ written = {}
    /\ open_sessions = 0

NextRepo ==
    \/ repo_create
    \/ repo_update
    \/ repo_complete
    \/ repo_delete
    \/ repo_update_embedding

SpecRepo == InitRepo /\ [][NextRepo]_vars

-----------------------------------------------------------------------------
(* The creators of tasks: the voice pipeline, the REST endpoint, /task *)

\* The states the Persistence stage is entered with
CreatorStates ==
    {NodeState(None, "Fix the mill", b, 1, None, None, 60) : b \in NodeBusinessIds}

\* The JSON bodies posted to the REST endpoint
CreateBodies ==
    {[title |-> "Call the client", business_id |-> b, priority |-> p,
      deadline |-> NoDate, deadline_text |-> None] :
        b \in {0, 1, 4, 5}, p \in {DefaultPriority, 5}}

\* What the extraction provider answers to the text of a /task command
CommandOutcomes ==
    {o \in ParseTaskOutcomes :
        o.kind = "return" => o.value.deadline = None /\ o.value.assigned_to = None}

\* What a creator did: whether it handed its draft to TaskRepository.create,
\* the table, and what it answered
Created(handed_over, r) ==
    [create_called |-> handed_over, tasks |-> r.tasks, out |-> r.out]

\* POST /tasks: the body is validated as a TaskCreate before the handler
\* runs; a ValueError of create becomes a 422, anything else a 500
api_create_task(T, body, user_id) ==
    LET task_data == TaskCreate(body) IN
    IF task_data.kind = "raise"
    THEN Created(FALSE, Outcome(T, Raised("HTTP 422", "body")))
    ELSE LET r == create(T, task_data.value, user_id) IN
         Created(TRUE,
                 IF r.out.kind = "return" THEN r
                 ELSE IF r.out.exc \in {"ValueError", "ValidationError"}
                 THEN Outcome(r.tasks, Raised("HTTP 422", r.out.msg))
                 ELSE Outcome(r.tasks, Raised("HTTP 500", r.out.msg)))

\* parsed.model_dump(exclude_unset=True, exclude={created_via, deadline_text})
\* of the ParsedTask built from the provider's JSON
model_dump(parsed, json) ==
    [f \in (ParsedTaskFields \cap DOMAIN json) \ {"created_via", "deadline_text"} |->
        parsed[f]]

\* task_command with arguments, for a registered user or not: the draft of
\* parse_task_from_transcript goes to TaskRepository.create as it is, and any
\* exception becomes an error reply
task_command_run(T, out, registered, user_id) ==
    IF ~registered
    THEN Created(FALSE, Outcome(T, Returned("user not found")))
    ELSE LET parsed == parse_task_from_transcript(out) IN
         IF parsed.kind = "raise"
         THEN Created(FALSE, Outcome(T, Returned("error reply")))
         ELSE LET r == create(T, model_dump(parsed.value, out.value), user_id) IN
              Created(TRUE,
                      IF r.out.kind = "return" THEN r
                      ELSE Outcome(r.tasks, Returned("error reply")))

\* A creator has run on the table: what it was given and what it did
CreatorCalled(op, business_id, c) ==
    /\ req' = [op |-> op, id |-> Len(tasks) + 1, business_id |-> business_id,
               create_called |-> c.create_called]
    /\ tasks' = c.tasks
    /\ ret' = c.out
    /\ written' = written \cup (DOMAIN c.tasks \ DOMAIN tasks)
    /\ UNCHANGED <<mode, pc, st, calls, trace, faults, parsed_data,
                   parse_result, handed, open_sessions>>

\* The Persistence stage of one voice request
voice_create_task ==
    /\ mode = "creators"
    /\ Len(tasks) <= MaxTasks
    /\ \E s \in CreatorStates, fault \in {"none", "commit"} :
          LET r == create_run(s, tasks, fault) IN
          CreatorCalled("voice", s.parsed_business_id,
                        Created("create" \in r.called,
                                Outcome(r.tasks,
                                        IF r.st.error = None
                                        THEN Returned(r.tasks[r.st.created_task_id])
                                        ELSE Raised(r.st.error, "create_task"))))

\* POST /tasks
rest_create_task ==
    /\ mode = "creators"
    /\ Len(tasks) <= MaxTasks
    /\ \E body \in CreateBodies :
          CreatorCalled("rest", body.business_id,
                        api_create_task(tasks, body, st.user_id))

\* /task <text>
task_command ==
    /\ mode = "creators"
    /\ Len(tasks) <= MaxTasks
    /\ \E out \in CommandOutcomes, registered \in BOOLEAN :
          CreatorCalled("command",
                        IF out.kind = "return" /\ "business_id" \in DOMAIN out.value
                        THEN out.value.business_id ELSE NoInt,
                        task_command_run(tasks, out, registered, st.user_id))

\* The three creators on an empty tasks table
InitCreate ==
    /\ mode = "creators"
    /\ pc = {}
    /\ st = initial_state
    /\ req = NoOperation
    /\ tasks = <<>>
    /\ calls = NoCalls
    /\ trace = <<>>
    /\ faults = {}
    /\ parsed_data = NoCall
    /\ parse_result = NoCall
    /\ ret = NoCall
    /\ handed = NoCall
    /\ written = {}
    /\ open_sessions = 0

NextCreate ==
    \/ voice_create_task
    \/ rest_create_task
    \/ task_command

SpecCreate == InitCreate /\ [][NextCreate]_vars

-----------------------------------------------------------------------------
(* Concurrent TaskRepository.complete calls, each on its own session *)

\* The coroutines that call complete at the same time
Callers == {"first", "second"}

\* The awaits of complete, in order, and its end
CompleteSteps == <<"get_by_id", "select", "commit", "refresh", "done">>

\* The coroutine at step i of complete resumes at step i + 1
NextStep(step) ==
    CompleteSteps[(CHOOSE i \in 1..Len(CompleteSteps) : CompleteSteps[i] = step) + 1]

\* The tasks table the calls start on: one open task, without or with an
\* estimate
OpenTasks ==
    {<<created_row(1, 1, data)>> : data \in NewTasks}
        \cup {<<[created_row(1, 1, data) EXCEPT !.estimated_duration = 100]>> :
                 data \in NewTasks}

\* Caller c moves to step next, or ends with out
Resumed(c, next, out) ==
    /\ req' = [req EXCEPT ![c] = [@ EXCEPT !.pc = next, !.out = out]]
    /\ UNCHANGED <<mode, pc, st, calls, trace, faults, parsed_data,
                   parse_result, ret, handed, written, open_sessions>>

\* complete up to its second await: get_by_id reads the row in the caller's
\* session, a missing or a done task raises
complete_get_by_id ==
    /\ mode = "completing"
    /\ \E c \in Callers :
          /\ req[c].pc = "get_by_id"
          /\ LET task == get_by_id(tasks, req[c].id) IN
             IF task = ReturnedNone
             THEN Resumed(c, "done", NotFound(req[c].id))
             ELSE IF task.kind = "raise" THEN Resumed(c, "done", task)
             ELSE IF task.value.status = "done"
             THEN Resumed(c, "done", Raised("ValueError", "Task already completed"))
             ELSE Resumed(c, NextStep("get_by_id"), NoCall)
          /\ UNCHANGED tasks

\* the second select of the row; its status is not looked at again
complete_select ==
    /\ mode = "completing"
    /\ \E c \in Callers :
          /\ req[c].pc = "select"
          /\ Resumed(c, NextStep("select"), NoCall)
          /\ UNCHANGED tasks

\* task_orm.status, actual_duration, completed_at are assigned and
\* session.commit() sends the UPDATE of the row, whatever its status is now
complete_commit ==
    /\ mode = "completing"
    /\ \E c \in Callers, now \in Timestamps :
          /\ req[c].pc = "commit"
          /\ LET id == req[c].id
                 row == [tasks[id] EXCEPT !.status = "done",
                                          !.actual_duration = req[c].actual_duration,
                                          !.completed_at = now]
             IN IF ~RowConstraints(row)
                THEN /\ Resumed(c, "done", Raised("IntegrityError", "valid_actual_duration"))
                     /\ UNCHANGED tasks
                ELSE /\ Resumed(c, NextStep("commit"), NoCall)
                     /\ tasks' = [tasks EXCEPT ![id] = row]

\* session.refresh(task_orm) reads the row again and complete returns it
complete_refresh ==
    /\ mode = "completing"
    /\ \E c \in Callers :
          /\ req[c].pc = "refresh"
          /\ LET row == tasks[req[c].id] IN
             Resumed(c, NextStep("refresh"),
                     IF TaskValid(row) THEN Returned(row)
                     ELSE Raised("ValidationError", "Task"))
          /\ UNCHANGED tasks

\* Two complete calls are started on a table holding one open task
InitComplete ==
    /\ mode = "completing"
    /\ pc = {}
    /\ st = initial_state
    /\ tasks \in OpenTasks
    /\ req \in [Callers -> [pc : {"get_by_id"}, id : {1, 2},
                            actual_duration : Durations, out : {NoCall}]]
    /\ calls = NoCalls
    /\ trace = <<>>
    /\ faults = {}
    /\ parsed_data = NoCall
    /\ parse_result = NoCall
    /\ ret = NoCall
    /\ handed = NoCall
    /\ written = {}
    /\ open_sessions = 0

NextComplete ==
    \/ complete_get_by_id
    \/ complete_select
    \/ complete_commit
    \/ complete_refresh

SpecComplete == InitComplete /\ [][NextComplete]_vars

-----------------------------------------------------------------------------
(* Task.estimation_accuracy *)

\* The largest duration a Task admits, in minutes
MaxDuration == 480

\* estimated_duration and actual_duration of a Task: None, or 1..480
TaskDurations == {NoInt} \cup 1..MaxDuration

\* The float n / d
Ratio(n, d) == [num |-> n, den |-> d]

abs(n) == IF n < 0 THEN -n ELSE n

\* an accuracy measured against the estimate
estimation_accuracy_of_estimate(task) ==
    IF task.estimated_duration \in {NoInt, 0} \/ task.actual_duration \in {NoInt, 0}
    THEN ReturnedNone
    ELSE LET error == abs(task.estimated_duration - task.actual_duration)
             e == task.estimated_duration
         IN Returned(IF e - error < 0 THEN Ratio(0, 1) ELSE Ratio(e - error, e))

\* Task.estimation_accuracy: 1 - error / actual_duration, clamped to 0..1
estimation_accuracy(task) ==
    IF task.estimated_duration \in {NoInt, 0} \/ task.actual_duration \in {NoInt, 0}
    THEN ReturnedNone
    ELSE LET error == abs(task.estimated_duration - task.actual_duration)
             a == task.actual_duration
             \* accuracy = 1 - error / a = (a - error) / a
             accuracy == Ratio(a - error, a)
         IN Returned(IF accuracy.num > accuracy.den THEN Ratio(1, 1)
                     ELSE IF accuracy.num < 0 THEN Ratio(0, 1)
                     ELSE accuracy)

\* A caller reads task.estimation_accuracy of the Task held in req
read_estimation_accuracy ==
    /\ mode = "task"
    /\ "estimation_accuracy" \in pc
    /\ pc' = {}
    /\ ret' = estimation_accuracy(req)
    /\ UNCHANGED <<mode, st, tasks, calls, trace, faults, parsed_data,
                   parse_result, req, handed, written, open_sessions>>

\* A Task with any admitted pair of durations
InitTask ==
    /\ mode = "task"
    /\ pc = {"estimation_accuracy"}
    /\ st = initial_state
    /\ req \in [estimated_duration : TaskDurations, actual_duration : TaskDurations]
    /\ tasks = <<>>
    /\ calls = NoCalls
    /\ trace = <<>>
    /\ faults = {}
    /\ parsed_data = NoCall
    /\ parse_result = NoCall
    /\ ret = NoCall
    /\ handed = NoCall
    /\ written = {}
    /\ open_sessions = 0

NextTask == read_estimation_accuracy

SpecTask == InitTask /\ [][NextTask]_vars

-----------------------------------------------------------------------------
(* Properties *)

StageOrder == <<"transcribe", "parse", "estimate_time", "create_task", "format_response">>

\* The business the last retrieval was asked for
QueriedBusiness ==
    IF mode = "retriever" THEN req.business_id ELSE st.parsed_business_id

\* The repository handed the retriever a row of another business
ForeignRowHanded ==
    /\ handed.kind = "return"
    /\ \E i \in 1..Len(handed.value) : handed.value[i].business_id # QueriedBusiness

\* C1: every task in the list find_similar_tasks returns for business b
\* carries business_id = b, whatever rows the repository handed back.
C1_ReturnedTasksSameBusiness ==
    ret.kind = "return" =>
        /\ QueriedBusiness \in ValidBusinessIds
        /\ \A i \in 1..Len(ret.value) : ret.value[i].business_id = QueriedBusiness

C1_Witness ==
    /\ mode = "retriever" /\ req.repository = "injected"
    /\ ret.kind = "return" /\ Len(ret.value) > 0

\* C2: when the repository hands the retriever a row of another business,
\* find_similar_tasks raises (an integrity error reaches the caller) instead
\* of returning a result.
C2_ForeignRowRaises ==
    ForeignRowHanded => ret.kind = "raise"

\* The extraction provider answered with a business_id outside 1..4
InvalidBusinessExtracted ==
    /\ parsed_data.kind = "return"
    /\ "business_id" \in DOMAIN parsed_data.value
    /\ parsed_data.value.business_id \notin ValidBusinessIds

NoRetrievalNoPersistence ==
    /\ calls["find_similar_tasks"] = 0
    /\ calls["find_similar"] = 0
    /\ calls["create"] = 0
    /\ written = {}

ValidExtraction ==
    /\ parsed_data.kind = "return"
    /\ JsonKeys \subseteq DOMAIN parsed_data.value
    /\ strip(parsed_data.value.title) # ""
    /\ parsed_data.value.business_id \in ValidBusinessIds
    /\ parsed_data.value.priority \in 1..4
    /\ parsed_data.value.deadline \in {None, "2025-10-21", "2025-10-21T14:30:00"}

\* C4: when transcription succeeds, the extraction provider returns a valid
\* object and the store is available, the run ends with an empty error slot,
\* a created_task_id and a persisted task of the extracted business.
C4_ValidRunCreatesTask ==
    (Done /\ mode = "graph" /\ faults = {} /\ ValidExtraction) =>
        /\ st.error = None
        /\ st.created_task_id \in 1..Len(tasks)
        /\ st.created_task_id \in written
        /\ tasks[st.created_task_id].business_id = parsed_data.value.business_id

\* C5: in every run the five stages execute once each in the order
\* Transcription, Extraction, Estimation, Persistence, Response-Formatting,
\* one at a time, and Response-Formatting runs last even after a fatal error.
C5_StagesInOrder ==
    /\ Cardinality(pc) <= 1
    /\ Len(trace) <= Len(StageOrder)
    /\ trace = SubSeq(StageOrder, 1, Len(trace))
    /\ pc = IF Len(trace) < Len(StageOrder) THEN {StageOrder[Len(trace) + 1]} ELSE {}

C5_Witness ==
    Done /\ st.error = "ParsingFailed" /\ trace[Len(trace)] = "format_response"

\* C6: a stage among Extraction, Estimation, Persistence entered with a
\* non-empty error slot returns the state with every field unchanged and
\* makes no provider call and no store call.
C6_ShortCircuit ==
    [][\A n \in {"parse", "estimate_time", "create_task"} :
          (st.error # None /\ n \in pc /\ trace' = Append(trace, n)) =>
              /\ st' = st
              /\ calls' = calls
              /\ tasks' = tasks
              /\ faults' = faults
              /\ open_sessions' = open_sessions]_vars

C6_Witness ==
    /\ st.error # None
    /\ Len(trace) = 4 /\ trace[4] = "create_task"
    /\ calls["get_session"] = 0

\* C7: the error slot is written at most once in a run: once error is
\* non-null, no later stage changes error or error_message.
C7_ErrorWrittenOnce ==
    [][st.error # None =>
          st'.error = st.error /\ st'.error_message = st.error_message]_vars

C7_Witness ==
    /\ Done /\ st.error = "TranscriptionFailed"
    /\ st.error_message = "Could not recognise the voice: whisper unavailable"

\* C8: whenever a run ends with created_task_id null, that run wrote no task
\* row, wherever the Persistence stage's create call failed.
C8_NullIdMeansNoRow ==
    (Done /\ st.created_task_id = NoInt) => written = {}

\* C9: if the Transcription provider raises, the run ends with
\* TranscriptionFailed, no other provider, the retriever or the store is
\* invoked, no task is created and the response is the fixed retry message.
C9_TranscriptionFailure ==
    (Done /\ mode = "graph" /\ "transcribe_voice" \in faults) =>
        /\ st.error = "TranscriptionFailed"
        /\ \A c \in CallNames \ {"transcribe_voice"} : calls[c] = 0
        /\ written = {} /\ st.created_task_id = NoInt
        /\ st.telegram_response =
              <<"[ERROR] Could not recognise the voice. Try again.">>

C9_Witness ==
    Done /\ mode = "graph" /\ "transcribe_voice" \in faults /\ calls["transcribe_voice"] = 1

\* The extraction provider raised, or answered without business_id
ExtractionUnusable ==
    \/ parsed_data.kind = "raise"
    \/ parsed_data.kind = "return" /\ "business_id" \notin DOMAIN parsed_data.value

\* C10: if the extraction provider call raises or its JSON lacks business_id,
\* parse_task_from_transcript raises ValueError("Failed to parse task ..."),
\* the error becomes ParsingFailed and neither retrieval nor persistence is
\* attempted.
C10_ParseFailure ==
    ExtractionUnusable =>
        /\ parse_result.kind = "raise"
        /\ parse_result.exc = "ValueError"
        /\ SubSeq(parse_result.msg, 1, 20) = "Failed to parse task"
        /\ st.error = "ParsingFailed"
        /\ NoRetrievalNoPersistence

C10_Witness ==
    /\ Done /\ parsed_data.kind = "return"
    /\ "business_id" \notin DOMAIN parsed_data.value
    /\ st.error = "ParsingFailed"

\* A retrieval call or the numeric-estimation call raised during Estimation
EstimationCallFailed ==
    /\ "estimate_time" \in {trace[i] : i \in 1..Len(trace)}
    /\ faults \cap {"generate_embedding", "find_similar", "estimate_time"} # {}

\* C11: when the retrieval call or the numeric-estimation call fails during
\* Estimation (the provider raising inside estimate_time after neighbours were
\* found included), the stage ends with estimated_duration = 60 and
\* similar_tasks_count = 0, the error slot stays empty and Persistence is
\* not skipped.
C11_EstimationFailureDefaults ==
    EstimationCallFailed =>
        /\ st.estimated_duration = DefaultEstimate
        /\ st.similar_tasks_count = 0
        /\ st.error = None
        /\ ~create_skips(st)

\* C12: the estimated_duration the Estimation stage writes is an integer in
\* [1, 480], whatever the provider answers (in range, out of range, not a
\* number, an exception) and whatever the retrieval does.
C12_EstimateInRange ==
    [][("estimate_time" \in pc /\ trace' = Append(trace, "estimate_time")
            /\ ~HasError(st)) =>
          st'.estimated_duration \in 1..480]_vars

C12_Witness ==
    /\ trace = <<"estimate_time">>
    /\ calls["estimate_time"] = 1 /\ faults = {}
    /\ st.similar_tasks_count > 0
    /\ st.estimated_duration = 480

\* C13: the task the Persistence stage writes carries the estimated_duration
\* the pipeline state held when the stage started (60 after an absorbed
\* estimation failure).
C13_RowCarriesEstimate ==
    \A i \in written : tasks[i].estimated_duration = st.estimated_duration

\* C14: whatever the providers and the store do (success or exception at any
\* stage), process_voice_message terminates: the run ends, no exception
\* leaves a node, and the returned state has a telegram_response.
C14_TerminatesWithResponse ==
    <>[](Done /\ st.telegram_response # NoMsg)

C14_Witness ==
    /\ Done /\ mode = "graph"
    /\ "parse_task" \in faults
    /\ st.telegram_response = <<error_messages["ParsingFailed"]>>

\* The repository call of this step asks row i to leave status `from` for
\* another status
LeavesStatus(i, from) ==
    /\ req'.id = i
    /\ \/ req'.op = "complete" /\ from # "done"
       \/ req'.op = "delete" /\ from # "archived"
       \/ /\ req'.op = "update" /\ "status" \in DOMAIN req'.data
          /\ req'.data.status # from

\* C15: archived is terminal: through every sequence of complete, update and
\* delete calls a task whose status is archived keeps that status, and a call
\* that asks it to leave archived is rejected with an error.
C15_ArchivedTerminal ==
    [][\A i \in DOMAIN tasks :
          tasks[i].status = "archived" =>
              /\ tasks'[i].status = "archived"
              /\ LeavesStatus(i, "archived") => ret'.kind = "raise"]_vars

\* The repository call of this step asks row i to become archived
ArchiveAttempt(i) ==
    /\ req'.id = i
    /\ \/ req'.op = "delete"
       \/ /\ req'.op = "update" /\ "status" \in DOMAIN req'.data
          /\ req'.data.status = "archived"

\* C16: a task in status open is never moved directly to archived: a delete,
\* or an update with status 'archived', of an open task is rejected with a
\* validation error and the status stays open.
C16_OpenNotArchived ==
    [][\A i \in DOMAIN tasks :
          (tasks[i].status = "open" /\ ~can_transition_to("open", "archived")) =>
              /\ tasks'[i].status # "archived"
              /\ ArchiveAttempt(i) =>
                    ret'.kind = "raise" /\ tasks'[i].status = "open"]_vars

CompletionUntouched ==
    /\ DOMAIN tasks' = DOMAIN tasks
    /\ \A i \in DOMAIN tasks :
          /\ tasks'[i].status = tasks[i].status
          /\ tasks'[i].actual_duration = tasks[i].actual_duration
          /\ tasks'[i].completed_at = tasks[i].completed_at

\* C18: complete(id, d) on a task that is already done raises 'Task already
\* completed', complete on an id that does not exist raises '... not found';
\* either way no task's status, actual_duration or completed_at changes.
C18_CompleteRejected ==
    [][req'.op = "complete" =>
          /\ req'.id \notin DOMAIN tasks =>
                /\ ret'.kind = "raise" /\ ret'.exc = "ValueError"
                /\ SubSeq(ret'.msg, Len(ret'.msg) - 8, Len(ret'.msg)) = "not found"
                /\ CompletionUntouched
          /\ (req'.id \in DOMAIN tasks /\ tasks[req'.id].status = "done") =>
                /\ ret' = Raised("ValueError", "Task already completed")
                /\ CompletionUntouched]_vars

C18_Witness ==
    /\ req.op = "complete" /\ req.id \in DOMAIN tasks
    /\ ret = Raised("ValueError", "Task already completed")
    /\ tasks[req.id].status = "done"
    /\ tasks[req.id].actual_duration = 60 /\ req.actual_duration = 100

\* C19: through every sequence of repository operations after create (update
\* with any TaskUpdate, complete, delete, update_embedding) a task keeps the
\* business_id it was created with.
C19_BusinessImmutable ==
    [][\A i \in DOMAIN tasks :
          i \in DOMAIN tasks' /\ tasks'[i].business_id = tasks[i].business_id]_vars

C19_Witness ==
    /\ req.op = "update" /\ req.id \in DOMAIN tasks
    /\ req.keywords = {"status", "business_id"}
    /\ ret.kind = "return" /\ ret.value.status = "open"
    /\ tasks[req.id].business_id = 2
    /\ tasks[req.id].embedding # NoInt
    /\ tasks[req.id].actual_duration # NoInt

\* estimation_accuracy was read on a Task with both durations set
AccuracyRead ==
    /\ mode = "task" /\ ret.kind = "return"
    /\ req.estimated_duration \in 1..MaxDuration
    /\ req.actual_duration \in 1..MaxDuration

DraftReturned == parsed_data.kind = "return" /\ parse_result.kind = "return"

\* C21: the draft parse_task_from_transcript returns exposes the provider's
\* deadline and assigned_to unchanged (parsed.deadline, parsed.assigned_to),
\* and the Extraction stage copies them into the pipeline state.
C21_DraftCarriesDeadline ==
    DraftReturned =>
        /\ {"deadline", "assigned_to"} \subseteq DOMAIN parse_result.value
        /\ parse_result.value.deadline = parsed_data.value.deadline
        /\ parse_result.value.assigned_to = parsed_data.value.assigned_to
        /\ st.parsed_deadline = parsed_data.value.deadline
        /\ st.parsed_assigned_to = parsed_data.value.assigned_to

\* C22: every draft the Extraction stage emits has a title that is non-empty
\* after trimming and a priority in 1..4: a provider answer with an empty or
\* whitespace-only title is rejected as ParsingFailed, and an absent or
\* out-of-range priority is replaced by 2.
C22_DraftTitleAndPriority ==
    /\ parse_result.kind = "return" =>
          /\ strip(parse_result.value.title) # ""
          /\ parse_result.value.priority \in 1..4
    /\ (parsed_data.kind = "return" /\ "title" \in DOMAIN parsed_data.value
          /\ strip(parsed_data.value.title) = "") =>
          parse_result.kind = "raise" /\ st.error = "ParsingFailed"
    /\ (DraftReturned
          /\ ("priority" \notin DOMAIN parsed_data.value
                \/ parsed_data.value.priority \notin 1..4)) =>
          parse_result.value.priority = DefaultPriority

\* format_response_node has produced the success message
SuccessFormatted ==
    /\ Len(trace) > 0 /\ trace[Len(trace)] = "format_response"
    /\ ~HasError(st)

\* The lines of the response that start with the deadline label
DeadlineLinesOf(response) ==
    {i \in 1..Len(response) :
        Len(response[i]) >= 9 /\ SubSeq(response[i], 1, 9) = "Deadline:"}

\* C23: on the success path the response always has a deadline line: the
\* formatted date when the deadline string parses, 'not set' when there is no
\* deadline, a format-error notice when the string cannot be parsed; and the
\* rest of the response is produced in every case.
C23_DeadlineLineAlways ==
    SuccessFormatted =>
        LET r == st.telegram_response
            dt == fromisoformat(st.parsed_deadline)
        IN /\ Len(r) >= 6 /\ r[1] = "TASK CREATED"
           /\ \E i \in DeadlineLinesOf(r) :
                 IF ~HasDeadline(st) THEN r[i] = "Deadline:   not set"
                 ELSE IF dt.kind = "raise" THEN r[i] = "Deadline:   format error"
                 ELSE SubSeq(r[i], 1, 22) = "Deadline:   " \o dt.value.day

\* C24: a task draft never has both deadline and deadline_text populated:
\* a TaskCreate constructed with both is rejected, and the Persistence stage
\* never builds a TaskCreate with both set.
C24_DeadlineOrText ==
    (mode = "node" /\ "create_task" \in pc /\ ~create_skips(st)) =>
        LET kw == TaskCreateKeywords(st)
            both == kw.deadline # NoDate /\ kw.deadline_text # None
        IN /\ ~both
           /\ both => TaskCreate(kw).kind = "raise"

\* find_similar_tasks was called for a business outside 1..4
InvalidBusinessQueried ==
    calls["find_similar_tasks"] > 0 /\ QueriedBusiness \notin 1..4

\* C25: find_similar_tasks called with a business_id outside {1,2,3,4} raises
\* at once: no embedding is requested, the store is not queried, and the
\* error reaches the caller instead of becoming an empty result.
C25_InvalidBusinessRaises ==
    InvalidBusinessQueried =>
        /\ ret.kind = "raise" /\ ret.exc = "ValueError"
        /\ calls["generate_embedding"] = 0
        /\ calls["find_similar"] = 0

C25_Witness ==
    /\ mode = "retriever" /\ req.business_id = 5
    /\ calls["find_similar_tasks"] = 1 /\ calls["generate_embedding"] = 0
    /\ ret = Raised("ValueError", "Invalid business_id")

\* find_similar_tasks was called for a valid business and its embedding
\* request or its store query raised
RetrievalCallRaised ==
    /\ calls["find_similar_tasks"] > 0 /\ QueriedBusiness \in 1..4
    /\ faults \cap {"generate_embedding", "find_similar"} # {}

\* C26: when the Embedding provider or the store query raises during
\* find_similar_tasks called with a valid business_id, the retriever returns
\* an empty list and raises nothing.
C26_RetrievalFailureEmpty ==
    RetrievalCallRaised => ret = Returned(<<>>)

C26_Witness ==
    /\ mode = "retriever" /\ req.repository = "TaskRepository"
    /\ req.business_id = 1
    /\ "find_similar" \in faults /\ calls["find_similar"] = 1
    /\ ret = Returned(<<>>)

\* The Estimation stage ran and its retriever returned no neighbours
NoNeighboursFound ==
    /\ "estimate_time" \in {trace[i] : i \in 1..Len(trace)}
    /\ calls["find_similar_tasks"] > 0
    /\ ret = Returned(<<>>)
    /\ faults \cap {"get_session", "close"} = {}

\* C27: when the retriever returns no neighbours the Estimation stage still
\* calls the Numeric Estimation provider (title alone, no-history guidance)
\* and uses its sanity-bounded answer; the fixed 60 is used only when that
\* answer is invalid or the call fails.
C27_NoHistoryAsksProvider ==
    NoNeighboursFound =>
        /\ calls["estimate_time"] = 1
        /\ st.estimated_duration \in 1..480
        /\ st.similar_tasks_count = 0

InvalidBusinessDrafted ==
    /\ req.op \in {"voice", "rest", "command"}
    /\ req.business_id # NoInt
    /\ req.business_id \notin ValidBusinessIds

\* C29: no sequence of task-creating operations (the Persistence stage of the
\* voice pipeline, the REST create endpoint, the /task command) leaves a task
\* whose business_id is outside 1..4 in the store, and a draft carrying such
\* a value is stopped before the store is asked to write it.
C29_InvalidBusinessNeverStored ==
    /\ \A i \in DOMAIN tasks : tasks[i].business_id \in ValidBusinessIds
    /\ InvalidBusinessDrafted => ~req.create_called

\* Both complete calls name the task that was open, with a duration the
\* store admits, and both have ended
BothCompleteCallsEnded ==
    /\ mode = "completing"
    /\ \A c \in Callers : /\ req[c].id = 1 /\ req[c].pc = "done"
                          /\ req[c].actual_duration \in 1..480

\* The complete calls that returned the completed task
Succeeded == {c \in Callers : req[c].out.kind = "return"}

\* C30: when two complete calls on the same open task interleave at their
\* awaits, each on its own session, at most one returns success, the other
\* raises "Task already completed", and the stored actual_duration is that
\* of the call that succeeded.
C30_CompletedAtMostOnce ==
    BothCompleteCallsEnded =>
        /\ Cardinality(Succeeded) <= 1
        /\ \A c \in Succeeded :
              /\ tasks[1].actual_duration = req[c].actual_duration
              /\ \A o \in Callers \ {c} :
                    req[o].out = Raised("ValueError", "Task already completed")

====
